---- MODULE Spec2Model ----
(***************************************************************************)
(* Model of the trust-and-integrity subsystem of Terminal-Decorator        *)
(* (src/security_manager.py): BackupManager (create_backup,                *)
(* restore_backup, list_backups, _calculate_file_hash) and SandboxManager  *)
(* (is_command_safe, run_sandboxed) with SecurityManager's wrappers.       *)
(*                                                                         *)
(* Strings are sequences of one-character strings, so that file names,     *)
(* glob patterns, timestamps and command texts are computed as the code    *)
(* computes them.                                                          *)
(***************************************************************************)
EXTENDS Integers, Sequences, FiniteSets, TLC

VARIABLES
    files,      \* the user's files: path -> [exists, content, mode, mtime]
    baks,       \* backup copies: <<category, file name>> -> [content, mode, mtime]
    metas,      \* sidecars: <<category, file name>> -> metadata record
    now,        \* the wall clock (also the source of modification times)
    stored,     \* backup copy -> the content create_backup recorded for it
    last,       \* what the most recent BackupManager call did and returned
    tasks,      \* run_sandboxed coroutines: task -> its position and data
    dirs,       \* sandbox directories that exist
    procs,      \* child processes alive: process -> [cwd, cmd, env]
    context,    \* the SandboxManager's SecurityContext
    ops         \* calls and events so far

vars == <<files, baks, metas, stored, now, last, tasks, dirs, procs, context, ops>>

backupVars == <<files, baks, metas, stored, now, last>>
sandboxVars == <<tasks, dirs, procs, context>>

----------------------------------------------------------------------------
(* Bound of the model: the number of calls and events of a run (a tick of  *)
(* the clock is an event).                                                 *)

MaxOps == 3

----------------------------------------------------------------------------
(* Strings.                                                                *)

\* ASCII codes of the characters the model uses (Python compares str by code point).
CharCode(c) ==
    CASE c = " " -> 32
      [] c = "-" -> 45
      [] c = "." -> 46
      [] c = "/" -> 47
      [] c = "0" -> 48
      [] c = "1" -> 49
      [] c = "2" -> 50
      [] c = "3" -> 51
      [] c = "4" -> 52
      [] c = "5" -> 53
      [] c = "6" -> 54
      [] c = "7" -> 55
      [] c = "8" -> 56
      [] c = "9" -> 57
      [] c = "_" -> 95
      [] c = "a" -> 97
      [] c = "b" -> 98
      [] c = "c" -> 99
      [] c = "e" -> 101
      [] c = "f" -> 102
      [] c = "k" -> 107
      [] c = "l" -> 108
      [] c = "m" -> 109
      [] c = "r" -> 114
      [] c = "s" -> 115
      [] c = "t" -> 116
      [] c = "x" -> 120
      [] OTHER -> 0

\* s < t for Python str: lexicographic by code point, a proper prefix is smaller.
RECURSIVE StrLess(_, _)
StrLess(s, t) ==
    IF t = <<>> THEN FALSE
    ELSE IF s = <<>> THEN TRUE
    ELSE IF CharCode(Head(s)) # CharCode(Head(t))
         THEN CharCode(Head(s)) < CharCode(Head(t))
    ELSE StrLess(Tail(s), Tail(t))

StartsWith(s, pre) ==
    /\ Len(pre) <= Len(s)
    /\ SubSeq(s, 1, Len(pre)) = pre

EndsWith(s, suf) ==
    /\ Len(suf) <= Len(s)
    /\ SubSeq(s, Len(s) - Len(suf) + 1, Len(s)) = suf

\* Python's `sub in s`.
Contains(s, sub) ==
    \E i \in 0..(Len(s) - Len(sub)) : SubSeq(s, i + 1, i + Len(sub)) = sub

----------------------------------------------------------------------------
(* Paths, file names, timestamps.                                          *)

PathAX == <<"/", "a", "/", "x">>
PathBX == <<"/", "b", "/", "x">>
PathAXrc == <<"/", "a", "/", "x", "_", "r", "c">>

\* The files the callers work on: two files with the same name in different
\* directories, and one whose name extends that name after an underscore.
Paths == {PathAX, PathBX, PathAXrc}

\* pathlib's Path.name: what follows the last "/".
RECURSIVE Name(_)
Name(p) ==
    IF \E i \in 1..Len(p) : p[i] = "/"
    THEN Name(Tail(p))
    ELSE p

Categories == {"shell_configs", "system_configs"}

DefaultCategory == "shell_configs"

Digit(d) ==
    CASE d = 0 -> "0" [] d = 1 -> "1" [] d = 2 -> "2" [] d = 3 -> "3"
      [] d = 4 -> "4" [] d = 5 -> "5" [] d = 6 -> "6" [] d = 7 -> "7"
      [] d = 8 -> "8" [] OTHER -> "9"

\* datetime.now().strftime('%Y%m%d_%H%M%S'): fixed width, second resolution,
\* a date part and a time part joined by an underscore.
Timestamp(t) == <<Digit((t \div 10) % 10), "_", Digit(t % 10)>>

BakSuffix == <<".", "b", "a", "k">>
MetaSuffix == <<".", "m", "e", "t", "a">>

\* f"{file_path.name}_{timestamp}.bak"
BackupName(name, ts) == name \o <<"_">> \o ts \o BakSuffix

\* Index of the last "." of a file name (0 if none).
LastDot(n) ==
    LET dots == {i \in 1..Len(n) : n[i] = "."}
    IN  IF dots = {} THEN 0 ELSE CHOOSE i \in dots : \A j \in dots : j <= i

\* Path.with_suffix: the last suffix of the name replaced.
WithSuffix(n, suf) ==
    IF LastDot(n) <= 1 THEN n \o suf ELSE SubSeq(n, 1, LastDot(n) - 1) \o suf

\* backup_path.with_suffix('.meta'), on <<category, file name>>.
MetaPath(k) == <<k[1], WithSuffix(k[2], MetaSuffix)>>

\* glob(f"{name}_*.bak") on one file name.
GlobMatch(name, fname) ==
    /\ Len(fname) >= Len(name) + 1 + Len(BakSuffix)
    /\ StartsWith(fname, name \o <<"_">>)
    /\ EndsWith(fname, BakSuffix)

\* glob("*.bak") on one file name.
IsBak(fname) == EndsWith(fname, BakSuffix)

\* 'shell_configs' if 'rc' in original_path.name else 'system_configs'
RestoreCategory(p) ==
    IF Contains(Name(p), <<"r", "c">>) THEN "shell_configs" ELSE "system_configs"

----------------------------------------------------------------------------
(* File contents, digests, permission bits.                                *)

Bytes == {0, 1}

\* File contents: one block of bytes; <<>> is the empty (truncated) file.
Contents == {<<b>> : b \in Bytes}

\* _calculate_file_hash: the blocks folded into a digest. SHA-256 is taken to
\* be collision-free, so the fold is one that is injective on byte sequences.
RECURSIVE HashFrom(_, _)
HashFrom(h, c) ==
    IF c = <<>> THEN h ELSE HashFrom(h * (Cardinality(Bytes) + 1) + Head(c) + 1, Tail(c))

CalculateFileHash(c) == HashFrom(0, c)

\* The permission bits files have here: 0o644 and 0o600.
Modes == {420, 384}

OctDigit(m, i) == Digit((m \div (8 ^ i)) % 8)

\* oct(st_mode)[-3:]
PermString(m) == <<OctDigit(m, 2), OctDigit(m, 1), OctDigit(m, 0)>>

DigitValue(c) == CharCode(c) - 48

\* int(metadata['permissions']): the digits read in base ten.
RECURSIVE ParseDecimal(_, _)
ParseDecimal(acc, s) ==
    IF s = <<>> THEN acc ELSE ParseDecimal(acc * 10 + DigitValue(Head(s)), Tail(s))

\* int(metadata['permissions'], 8)
RECURSIVE ParseOctal(_, _)
ParseOctal(acc, s) ==
    IF s = <<>> THEN acc ELSE ParseOctal(acc * 8 + DigitValue(Head(s)), Tail(s))

NoFile == [exists |-> FALSE, content |-> <<>>, mode |-> 0, mtime |-> 0]

None == <<>>

----------------------------------------------------------------------------
(* BackupManager.create_backup                                             *)

NoCall == [op |-> "none"]

\* Points at which create_backup can raise: in shutil.copy2 before anything is
\* written ("copy"), or after the copy and before the sidecar exists ("meta":
\* hashing, stat, the owner lookup or the open of the sidecar).
CreateFaults == {"none", "copy", "meta"}

BackupPath(p, cat, t) == <<cat, BackupName(Name(p), Timestamp(t))>>

\* shutil.copy2: content, permission bits and modification time of the source.
Copy2(f) == [content |-> f.content, mode |-> f.mode, mtime |-> f.mtime]

\* The metadata dictionary of lines 70-76; `hashed` is the content read by
\* _calculate_file_hash(file_path).
Metadata(p, t, f, hashed) ==
    [original_path |-> p,
     timestamp |-> Timestamp(t),
     hash |-> CalculateFileHash(hashed),
     permissions |-> PermString(f.mode)]

\* What the caller keeps of the outcome r of create_backup: a direct caller
\* has r, a wrapper ignores the return value and goes on.
Kept(caller, r) ==
    IF caller.op = "none" THEN r ELSE [caller EXCEPT !.backup = <<r>>]

\* CreateFailed with the exception left to the caller.
CreateRaises(p, cat, failure) ==
    [op |-> "create_backup", path |-> p, category |-> cat, ret |-> None,
     raised |-> TRUE, failure |-> failure]

\* Lines 85-87: whatever the body raises is logged and None is returned.
CreateFailed(p, cat, failure) ==
    [op |-> "create_backup", path |-> p, category |-> cat, ret |-> None,
     raised |-> FALSE, failure |-> failure]

\* create_backup(file_path, category). `written` holds the content another
\* writer gives the source between the copy and the hashing (empty: no such
\* writer). `caller` is NoCall for a direct call, else what the calling wrapper
\* reports.
CreateBackupWith(p, cat, fault, written, caller) ==
    LET src == files[p]
        bp == BackupPath(p, cat, now)
        after == IF written = {} THEN src
                 ELSE [src EXCEPT !.content = CHOOSE c \in written : TRUE,
                                  !.mtime = now]
    IN  IF ~src.exists
        THEN /\ last' = Kept(caller, [op |-> "create_backup", path |-> p,
                                 category |-> cat, ret |-> None,
                                 raised |-> FALSE, failure |-> "missing"])
             /\ UNCHANGED <<files, baks, metas, stored, now>>
        ELSE /\ IF fault = "copy"
                THEN /\ last' = Kept(caller, CreateFailed(p, cat, fault))
                     /\ UNCHANGED <<files, baks, metas, stored, now>>
                ELSE /\ baks' = [k \in DOMAIN baks \cup {bp} |->
                                    IF k = bp THEN Copy2(src) ELSE baks[k]]
                     /\ files' = [files EXCEPT ![p] = after]
                     /\ IF fault = "meta"
                        THEN /\ metas' = metas
                             /\ stored' = stored
                             /\ last' = Kept(caller, CreateFailed(p, cat, fault))
                        ELSE /\ metas' = [k \in DOMAIN metas \cup {MetaPath(bp)} |->
                                            IF k = MetaPath(bp)
                                            THEN Metadata(p, now, after, after.content)
                                            ELSE metas[k]]
                             /\ stored' = [k \in DOMAIN stored \cup {bp} |->
                                             IF k = bp THEN src.content
                                             ELSE stored[k]]
                             /\ last' = Kept(caller, [op |-> "create_backup", path |-> p,
                                                 category |-> cat, ret |-> bp,
                                                 raised |-> FALSE,
                                                 failure |-> "none"])
                     /\ UNCHANGED now

\* create_backup called directly: the caller has its outcome.
CreateBackupCall(p, cat, fault, written) ==
    CreateBackupWith(p, cat, fault, written, NoCall)

CreateBackup ==
    /\ last = NoCall
    /\ ops < MaxOps
    /\ ops' = ops + 1
    /\ \E p \in Paths, cat \in Categories, fault \in CreateFaults :
          CreateBackupCall(p, cat, fault, {})
    /\ UNCHANGED sandboxVars

\* create_backup while the owner of the file rewrites it: after shutil.copy2
\* has made the copy and before _calculate_file_hash reads the file.
CreateBackupRaced ==
    /\ last = NoCall
    /\ ops < MaxOps
    /\ ops' = ops + 1
    /\ \E p \in Paths, cat \in Categories, c \in Contents :
          /\ files[p].exists
          /\ files[p].content # c
          /\ CreateBackupCall(p, cat, "none", {c})
    /\ UNCHANGED sandboxVars

----------------------------------------------------------------------------
(* BackupManager.restore_backup                                            *)

\* Points at which restore_backup can raise: reading the sidecar ("meta"),
\* the staging copy ("copy"), os.chmod ("chmod"), the owner lookup or os.chown
\* ("owner": the recorded owner is not a user of this host, or chown is
\* refused; they are reached only when running as root), shutil.move before anything is written
\* ("move"), and the copy shutil.move falls back to, interrupted ("movecopy").
RestoreFaults == {"none", "meta", "copy", "chmod", "owner", "move", "movecopy"}

\* list(glob(f"{original_path.name}_*.bak")) in the category the name selects.
GlobBackups(p) ==
    {k \in DOMAIN baks : k[1] = RestoreCategory(p) /\ GlobMatch(Name(p), k[2])}

\* max(backups, key=st_mtime): any of the candidates of greatest mtime (the
\* first of them in directory order, which is arbitrary).
NewestByMtime(c) == {k \in c : \A j \in c : baks[j].mtime <= baks[k].mtime}

\* The backup restore_backup works from: the explicit one, or the one lines
\* 92-99 pick (None when the glob finds nothing).
Selection(p, arg) ==
    IF arg # None THEN {arg}
    ELSE IF GlobBackups(p) = {} THEN {None}
    ELSE NewestByMtime(GlobBackups(p))

\* IntegrityFailed without the comparison of lines 110-113.
IntegrityNotCompared(sel) == FALSE

\* Lines 105-113: TRUE when the sidecar exists and its hash differs from the
\* digest of the backup copy.
IntegrityFailed(sel) ==
    /\ MetaPath(sel) \in DOMAIN metas
    /\ CalculateFileHash(baks[sel].content) # metas[MetaPath(sel)].hash

\* Line 120: the staged copy against the backup copy as it is then.
StagingFailed(tmpContent, bakContent) ==
    CalculateFileHash(tmpContent) # CalculateFileHash(bakContent)

\* Lines 126-132 on the temporary file.
ApplyPermissions(tmp, sel) ==
    IF MetaPath(sel) \in DOMAIN metas
    THEN [tmp EXCEPT !.mode = ParseOctal(0, metas[MetaPath(sel)].permissions)]
    ELSE tmp

Failed(p, sel, staged, tmpLeft, bak) ==
    [ret |-> FALSE, sel |-> sel, target |-> files[p], how |-> "none",
     staged |-> staged, tmpLeft |-> tmpLeft, bak |-> bak]

\* A file whose in-place copy was interrupted: opened for writing (truncated,
\* created if absent), not yet given the source's permissions and times.
Truncated(f, t) ==
    [exists |-> TRUE, content |-> <<>>,
     mode |-> IF f.exists THEN f.mode ELSE 420, mtime |-> t]

\* shutil.move(tmp.name, original_path): os.rename when the temporary directory
\* is on the target's filesystem, else copy2 onto the target and unlink.
Move(p, sel, tmp, fault, sameFs, bak) ==
    IF fault = "move" THEN Failed(p, sel, TRUE, TRUE, bak)
    ELSE IF sameFs
    THEN [ret |-> TRUE, sel |-> sel, how |-> "rename", staged |-> TRUE,
          tmpLeft |-> FALSE, bak |-> bak,
          target |-> [exists |-> TRUE, content |-> tmp.content,
                      mode |-> tmp.mode, mtime |-> tmp.mtime]]
    ELSE IF fault = "movecopy"
    THEN [ret |-> FALSE, sel |-> sel, how |-> "copy", staged |-> TRUE,
          tmpLeft |-> TRUE, bak |-> bak, target |-> Truncated(files[p], now)]
    ELSE [ret |-> TRUE, sel |-> sel, how |-> "copy", staged |-> TRUE,
          tmpLeft |-> FALSE, bak |-> bak,
          target |-> [exists |-> TRUE, content |-> tmp.content,
                      mode |-> tmp.mode, mtime |-> tmp.mtime]]

\* The body of restore_backup from line 101 on, for the backup `sel`.
\* `w1` holds the content another actor writes to the backup copy after the
\* first integrity check and before the staging copy, `w2` the content written
\* between the staging copy and its verification (empty: no such write).
\* `root` is os.getuid() == 0 (line 130).
\* Gives the return value, the target file afterwards, how the target was
\* written, whether a temporary file was created and whether it is left, and
\* the backup copy afterwards.
Restore(p, sel, fault, root, sameFs, w1, w2) ==
    IF sel = None THEN Failed(p, sel, FALSE, FALSE, NoFile)
    ELSE IF sel \notin DOMAIN baks THEN Failed(p, sel, FALSE, FALSE, NoFile)
    ELSE
    LET bak0 == baks[sel]
        bak1 == IF w1 = {} THEN bak0
                ELSE [bak0 EXCEPT !.content = CHOOSE c \in w1 : TRUE, !.mtime = now]
        tmp == Copy2(bak1)
        bak2 == IF w2 = {} THEN bak1
                ELSE [bak1 EXCEPT !.content = CHOOSE c \in w2 : TRUE, !.mtime = now]
    IN  IF MetaPath(sel) \in DOMAIN metas /\ fault = "meta"
        THEN Failed(p, sel, FALSE, FALSE, bak0)
        ELSE IF IntegrityFailed(sel) THEN Failed(p, sel, FALSE, FALSE, bak0)
        ELSE IF fault = "copy" THEN Failed(p, sel, TRUE, TRUE, bak1)
        ELSE IF StagingFailed(tmp.content, bak2.content)
        THEN Failed(p, sel, TRUE, FALSE, bak2)
        ELSE IF MetaPath(sel) \in DOMAIN metas /\ fault = "chmod"
        THEN Failed(p, sel, TRUE, TRUE, bak2)
        ELSE IF MetaPath(sel) \in DOMAIN metas /\ root /\ fault = "owner"
        THEN Failed(p, sel, TRUE, TRUE, bak2)
        ELSE Move(p, sel, ApplyPermissions(tmp, sel), fault, sameFs, bak2)

\* restore_backup(original_path, backup_path), backup_path None when omitted.
RestoreBackupCall(p, arg, fault, root, sameFs, w1, w2) ==
    \E sel \in Selection(p, arg) :
        LET out == Restore(p, sel, fault, root, sameFs, w1, w2)
        IN  /\ files' = [files EXCEPT ![p] = out.target]
            /\ baks' = IF sel \in DOMAIN baks
                       THEN [baks EXCEPT ![sel] = out.bak]
                       ELSE baks
            /\ last' = [op |-> "restore_backup", path |-> p, backup |-> arg,
                        ret |-> out.ret, sel |-> out.sel, how |-> out.how,
                        staged |-> out.staged, tmpLeft |-> out.tmpLeft]
            /\ UNCHANGED <<metas, stored, now>>

\* os.getuid() == 0 or not, for a call in which `fault` happens: the two
\* differ only where the owner is looked up and set.
Privileges(fault) == IF fault = "owner" THEN BOOLEAN ELSE {FALSE}

\* The temporary directory on the target's file system or not, for a call in
\* which `fault` happens: the two differ only where shutil.move is reached.
Filesystems(fault) ==
    IF fault \in {"none", "move", "movecopy"} THEN BOOLEAN ELSE {TRUE}

\* A backup path that names no file.
MissingBackup == <<"shell_configs", <<"x", ".", "b", "a", "k">>>>

RestoreBackup ==
    /\ last = NoCall \/ last.op = "create_backup"
    /\ ops < MaxOps
    /\ ops' = ops + 1
    /\ \E p \in Paths, arg \in DOMAIN baks \cup {None, MissingBackup},
          fault \in RestoreFaults :
          \E root \in Privileges(fault), sameFs \in Filesystems(fault) :
              RestoreBackupCall(p, arg, fault, root, sameFs, {}, {})
    /\ UNCHANGED sandboxVars

\* restore_backup while another actor writes to the backup copy: after the
\* first integrity check and before the staging copy (w1), or after the staging
\* copy and before its verification (w2).
RestoreBackupRaced ==
    /\ last = NoCall
    /\ ops < MaxOps
    /\ ops' = ops + 1
    /\ \E p \in Paths, arg \in DOMAIN baks \cup {None},
          fault \in RestoreFaults,
          w1 \in {{}} \cup {{c} : c \in Contents},
          w2 \in {{}} \cup {{c} : c \in Contents} :
          /\ w1 \cup w2 # {}
          /\ \E root \in Privileges(fault), sameFs \in Filesystems(fault) :
                RestoreBackupCall(p, arg, fault, root, sameFs, w1, w2)
    /\ UNCHANGED sandboxVars

----------------------------------------------------------------------------
(* BackupManager.list_backups                                              *)

\* InsertDesc without reverse=True: ascending.
RECURSIVE InsertAsc(_, _)
InsertAsc(r, x) ==
    IF r = <<>> THEN <<x>>
    ELSE IF StrLess(x.timestamp, Head(r).timestamp)
    THEN <<x>> \o r
    ELSE <<Head(r)>> \o InsertAsc(Tail(r), x)

\* sorted(backups, key=timestamp, reverse=True), one insertion: Python's sort
\* is stable, so x goes after every record whose timestamp is not smaller.
RECURSIVE InsertDesc(_, _)
InsertDesc(r, x) ==
    IF r = <<>> THEN <<x>>
    ELSE IF StrLess(Head(r).timestamp, x.timestamp)
    THEN <<x>> \o r
    ELSE <<Head(r)>> \o InsertDesc(Tail(r), x)

RECURSIVE SortedDesc(_)
SortedDesc(s) ==
    IF s = <<>> THEN <<>>
    ELSE InsertDesc(SortedDesc(SubSeq(s, 1, Len(s) - 1)), s[Len(s)])

\* The record list_backups builds from one sidecar (lines 160-163).
BackupRecord(k) ==
    [original_path |-> metas[MetaPath(k)].original_path,
     timestamp |-> metas[MetaPath(k)].timestamp,
     hash |-> metas[MetaPath(k)].hash,
     permissions |-> metas[MetaPath(k)].permissions,
     backup_path |-> k,
     size |-> Len(baks[k].content)]

\* process_backup_dir without the comparison of line 164: every record.
RECURSIVE ProcessBackupDirUnfiltered(_, _)
ProcessBackupDirUnfiltered(scan, p) ==
    IF scan = <<>> THEN <<>>
    ELSE LET k == Head(scan)
             rest == ProcessBackupDirUnfiltered(Tail(scan), p)
         IN  IF IsBak(k[2]) /\ MetaPath(k) \in DOMAIN metas
             THEN <<BackupRecord(k)>> \o rest
             ELSE rest

\* process_backup_dir over the directory entries `scan`, in that order.
RECURSIVE ProcessBackupDir(_, _)
ProcessBackupDir(scan, p) ==
    IF scan = <<>> THEN <<>>
    ELSE LET k == Head(scan)
             rest == ProcessBackupDir(Tail(scan), p)
         IN  IF /\ IsBak(k[2])
                /\ MetaPath(k) \in DOMAIN metas
                /\ (p = None \/ metas[MetaPath(k)].original_path = p)
             THEN <<BackupRecord(k)>> \o rest
             ELSE rest

\* All orders in which a directory listing can give the elements of S.
RECURSIVE Orders(_)
Orders(S) ==
    IF S = {} THEN {<<>>}
    ELSE UNION {{<<x>> \o o : o \in Orders(S \ {x})} : x \in S}

\* The listings of the two category directories, shell_configs first.
Scans ==
    {a \o b : a \in Orders({k \in DOMAIN baks : k[1] = "shell_configs"}),
              b \in Orders({k \in DOMAIN baks : k[1] = "system_configs"})}

\* list_backups(original_path) when the directories list as `scan`.
ListBackups(scan, p) == SortedDesc(ProcessBackupDir(scan, p))

\* A call of list_backups: a query, it changes nothing.
ListBackupsCall ==
    /\ last = NoCall
    /\ \E p \in Paths \cup {None}, scan \in Scans :
          last' = [op |-> "list_backups", path |-> p, ret |-> ListBackups(scan, p)]
    /\ UNCHANGED <<files, baks, metas, stored, now, sandboxVars, ops>>

----------------------------------------------------------------------------
(* SecurityManager.verify_file_integrity.                                  *)

\* What can fail in a call: loading the catalog (a directory or a sidecar
\* that cannot be read or parsed) and reading the file.
VerifyFaults == {"none", "catalog", "read"}

\* Lines 355-357: whatever the body raises is logged and False is returned.
VerifyFailed == [ret |-> FALSE, raised |-> FALSE]

\* verify_file_integrity without lines 346-347: backups[0] of an empty list
\* raises IndexError.
VerifyWithoutEmptyCheck(scan, p, fault) ==
    LET backups == ListBackups(scan, p)
    IN  IF fault = "catalog" THEN VerifyFailed
        ELSE IF backups = <<>> THEN VerifyFailed
        ELSE IF fault = "read" \/ ~files[p].exists THEN VerifyFailed
        ELSE [ret |-> CalculateFileHash(files[p].content) = backups[1].hash,
              raised |-> FALSE]

\* verify_file_integrity(file_path) when the directories list as `scan`.
VerifyFileIntegrity(scan, p, fault) ==
    LET backups == ListBackups(scan, p)
    IN  IF fault = "catalog" THEN VerifyFailed
        ELSE IF backups = <<>> THEN [ret |-> TRUE, raised |-> FALSE]
        ELSE IF fault = "read" \/ ~files[p].exists THEN VerifyFailed
        ELSE [ret |-> CalculateFileHash(files[p].content) = backups[1].hash,
              raised |-> FALSE]

\* A call of verify_file_integrity: a query. `scan` is kept with the result
\* to say which listing the call saw.
VerifyFileIntegrityCall ==
    /\ last = NoCall
    /\ \E p \in Paths, scan \in Scans, fault \in VerifyFaults :
          LET out == VerifyFileIntegrity(scan, p, fault)
          IN  last' = [op |-> "verify_file_integrity", path |-> p,
                       ret |-> out.ret, raised |-> out.raised,
                       fault |-> fault, scan |-> scan]
    /\ UNCHANGED <<files, baks, metas, stored, now, sandboxVars, ops>>

----------------------------------------------------------------------------
(* The environment: the clock, the owners of the files, whoever can write  *)
(* to the backup directory.                                                *)

\* The caller takes the result of the call; the next call or event follows.
Return ==
    /\ last # NoCall
    /\ last' = NoCall
    /\ UNCHANGED <<files, baks, metas, stored, now, sandboxVars, ops>>

Tick ==
    /\ last = NoCall
    /\ ops < MaxOps
    /\ ops' = ops + 1
    /\ now' = now + 1
    /\ last' = NoCall
    /\ UNCHANGED <<files, baks, metas, stored, sandboxVars>>

\* The file's owner rewrites it.
WriteFile ==
    /\ last = NoCall
    /\ ops < MaxOps
    /\ ops' = ops + 1
    /\ \E p \in Paths, c \in Contents :
          /\ files[p].content # c
          /\ files' = [files EXCEPT ![p] =
                          [exists |-> TRUE, content |-> c,
                           mode |-> IF files[p].exists THEN files[p].mode ELSE 420,
                           mtime |-> now]]
    /\ last' = NoCall
    /\ UNCHANGED <<baks, metas, stored, now, sandboxVars>>

\* The bytes of a stored backup copy are altered.
TamperBackup ==
    /\ last = NoCall
    /\ ops < MaxOps
    /\ ops' = ops + 1
    /\ \E k \in DOMAIN baks, c \in Contents :
          /\ baks[k].content # c
          /\ baks' = [baks EXCEPT ![k].content = c, ![k].mtime = now]
    /\ last' = NoCall
    /\ UNCHANGED <<files, metas, stored, now, sandboxVars>>

----------------------------------------------------------------------------
(* SandboxManager: the command policy and run_sandboxed.                   *)

MaxTasks == 2

TaskIds == 1..MaxTasks

\* str.lower() on one character.
LowerChar(c) ==
    CASE c = "A" -> "a"
      [] c = "B" -> "b"
      [] c = "C" -> "c"
      [] c = "D" -> "d"
      [] c = "E" -> "e"
      [] c = "F" -> "f"
      [] c = "G" -> "g"
      [] c = "H" -> "h"
      [] c = "I" -> "i"
      [] c = "J" -> "j"
      [] c = "K" -> "k"
      [] c = "L" -> "l"
      [] c = "M" -> "m"
      [] c = "N" -> "n"
      [] c = "O" -> "o"
      [] c = "P" -> "p"
      [] c = "Q" -> "q"
      [] c = "R" -> "r"
      [] c = "S" -> "s"
      [] c = "T" -> "t"
      [] c = "U" -> "u"
      [] c = "V" -> "v"
      [] c = "W" -> "w"
      [] c = "X" -> "x"
      [] c = "Y" -> "y"
      [] c = "Z" -> "z"
      [] OTHER -> c

Lower(s) == [i \in 1..Len(s) |-> LowerChar(s[i])]

IsSpace(c) == c \in {" ", "\t", "\n"}

\* str.strip(): leading and trailing whitespace removed.
RECURSIVE LStrip(_)
LStrip(s) == IF s # <<>> /\ IsSpace(Head(s)) THEN LStrip(Tail(s)) ELSE s

RECURSIVE RStrip(_)
RStrip(s) ==
    IF s # <<>> /\ IsSpace(s[Len(s)]) THEN RStrip(SubSeq(s, 1, Len(s) - 1)) ELSE s

Strip(s) == RStrip(LStrip(s))

\* _get_restricted_commands: the denylist, as written in the source.
RestrictedCommands ==
    {<<"r", "m", " ", "-", "r", "f", " ", "/">>,
     <<"c", "h", "m", "o", "d", " ", "-", "R", " ", "7", "7", "7">>,
     <<"d", "d", " ", "i", "f", "=", "/", "d", "e", "v", "/", "z", "e", "r", "o">>,
     <<":", "(", ")", "{", " ", ":", "|", ":", "&", " ", "}", ";", ":">>,
     <<">", " ", "/", "d", "e", "v", "/", "s", "d", "a">>,
     <<"m", "k", "f", "s">>,
     <<"f", "d", "i", "s", "k">>,
     <<"m", "k", "s", "w", "a", "p">>,
     <<"s", "u", "d", "o", " ", "r", "m">>,
     <<"s", "u", "d", "o", " ", "c", "h", "m", "o", "d">>,
     <<"s", "u", "d", "o", " ", "c", "h", "o", "w", "n">>}

\* is_command_safe(command)
IsCommandSafe(command) ==
    LET c == Lower(Strip(command))
    IN  ~\E restricted \in context.restricted_commands : Contains(c, restricted)

\* Commands the callers submit.
CmdLs == <<"l", "s", " ", "-", "l", "a">>
CmdRmRoot == <<"r", "m", " ", "-", "r", "f", " ", "/">>
CmdMkfsUpper == <<" ", "M", "K", "F", "S", " ", "/", "d", "e", "v", "/", "s", "d", "b", " ">>
CmdChmod == <<"c", "h", "m", "o", "d", " ", "-", "R", " ", "7", "7", "7", " ", "/">>

Commands == {CmdLs, CmdRmRoot, CmdMkfsUpper, CmdChmod}

\* _get_safe_environment: the variables that are forwarded.
AllowedVars ==
    {"HOME", "USER", "SHELL", "PATH", "TERM", "LANG", "LC_ALL", "EDITOR",
     "VISUAL", "DISPLAY"}

\* _get_safe_environment: safe_paths, in the order of the source.
SafePaths ==
    <<"/usr/local/bin", "/usr/bin", "/bin", "/usr/local/sbin", "/usr/sbin", "/sbin">>

\* ':'.join(parts): a string is given as the sequence of its parts, the
\* separators among them.
RECURSIVE JoinColon(_)
JoinColon(parts) ==
    IF parts = <<>> THEN <<>>
    ELSE IF Len(parts) = 1 THEN parts
    ELSE <<Head(parts), ":">> \o JoinColon(Tail(parts))

\* SafeEnvironment with PATH taken from the parent when the parent has one.
SafeEnvironmentInheritPath(environ, existing) ==
    [v \in (AllowedVars \cap DOMAIN environ) \cup {"PATH"} |->
        IF v \in DOMAIN environ THEN environ[v]
        ELSE JoinColon(SelectSeq(SafePaths, LAMBDA d : d \in existing))]

\* _get_safe_environment() when os.environ is `environ` and `existing` are
\* the paths for which os.path.exists is true.
SafeEnvironment(environ, existing) ==
    [v \in (AllowedVars \cap DOMAIN environ) \cup {"PATH"} |->
        IF v = "PATH"
        THEN JoinColon(SelectSeq(SafePaths, LAMBDA d : d \in existing))
        ELSE environ[v]]

\* The environment of the process that constructs the SandboxManager: allowed
\* variables, a PATH of its own, and a variable that must not be passed on.
OsEnviron ==
    [v \in {"HOME", "TERM", "PATH", "API_TOKEN"} |->
        CASE v = "HOME" -> <<"/home/u">>
          [] v = "TERM" -> <<"xterm">>
          [] v = "PATH" -> <<"/opt/tools/bin", ":", "/usr/bin">>
          [] OTHER -> <<"secret">>]

\* The safe directories the host has.
HostPaths == {"/usr/local/bin", "/usr/bin", "/bin", "/usr/sbin", "/sbin"}

\* The environment _create_security_context puts in the context when the
\* SandboxManager is constructed.
ContextEnvironment == SafeEnvironment(OsEnviron, HostPaths)

\* The name of the sandbox directory d, as TemporaryDirectory gives it.
SandboxDir(d) == <<"/tmp/tmp", d>>

\* Lines 267-268: the environment run_sandboxed gives the child.
RunSandboxedEnv(sandbox_dir) ==
    [v \in DOMAIN context.environment \cup {"SANDBOX_DIR"} |->
        IF v = "SANDBOX_DIR" THEN sandbox_dir ELSE context.environment[v]]

\* SharedContext with env = self.context.environment, the dictionary itself.
SharedContextAliased(sandbox_dir) ==
    [context EXCEPT !.environment = RunSandboxedEnv(sandbox_dir)]

\* The context after lines 267-268: env is a copy (dict.copy()), so the
\* assignment of line 268 leaves the context's dictionary as it is.
SharedContext(sandbox_dir) == context

\* Names tempfile can give a sandbox directory.
DirNames == 1..MaxTasks

\* Mkdtemp without the exclusive creation: any name.
MkdtempAnyName == DirNames

\* tempfile.TemporaryDirectory(): the directory is created under a name that
\* does not exist.
Mkdtemp == DirNames \ dirs

IdleTask == [pc |-> "idle", cmd |-> <<>>, dir |-> {}, exc |-> "", env |-> <<>>]

\* secure_command_execution's handler: the exception is logged and re-raised
\* as it is.
Reraise(exc) == exc

\* run_sandboxed without the check of lines 261-262.
RunSandboxedUnchecked(t, command) ==
    \E d \in Mkdtemp :
        /\ dirs' = dirs \cup {d}
        /\ tasks' = [tasks EXCEPT ![t] =
                        [pc |-> "spawning", cmd |-> command, dir |-> {d}, exc |-> "",
                         env |-> RunSandboxedEnv(SandboxDir(d))]]
        /\ context' = SharedContext(SandboxDir(d))
        /\ UNCHANGED procs

\* run_sandboxed(command) up to its first await: the policy check, then the
\* sandbox directory. secure_command_execution logs and re-raises whatever
\* run_sandboxed raises, so the caller gets the same exception.
RunSandboxedStart(t, command) ==
    IF ~IsCommandSafe(command)
    THEN /\ tasks' = [tasks EXCEPT ![t] =
                         [pc |-> "raised", cmd |-> command, dir |-> {},
                          exc |-> Reraise("SecurityError"), env |-> <<>>]]
         /\ UNCHANGED <<dirs, procs, context>>
    ELSE \E d \in Mkdtemp :
            /\ dirs' = dirs \cup {d}
            /\ tasks' = [tasks EXCEPT ![t] =
                            [pc |-> "spawning", cmd |-> command, dir |-> {d},
                             exc |-> "", env |-> RunSandboxedEnv(SandboxDir(d))]]
            /\ context' = SharedContext(SandboxDir(d))
            /\ UNCHANGED procs

SecureCommandExecution ==
    /\ \E t \in TaskIds, command \in Commands :
          /\ tasks[t].pc = "idle"
          /\ RunSandboxedStart(t, command)
    /\ UNCHANGED <<backupVars, ops>>

\* asyncio.create_subprocess_shell: the child starts in the sandbox directory
\* with the environment made in lines 267-268.
Spawn ==
    /\ \E t \in TaskIds :
          /\ tasks[t].pc = "spawning"
          /\ procs' = [k \in DOMAIN procs \cup {t} |->
                          IF k = t
                          THEN [cwd |-> tasks[t].dir, cmd |-> tasks[t].cmd,
                                env |-> tasks[t].env]
                          ELSE procs[k]]
          /\ tasks' = [tasks EXCEPT ![t].pc = "communicating"]
    /\ UNCHANGED <<dirs, context, backupVars, ops>>

\* create_subprocess_shell raises: the with block removes the directory.
SpawnFails ==
    /\ \E t \in TaskIds :
          /\ tasks[t].pc = "spawning"
          /\ dirs' = dirs \ tasks[t].dir
          /\ tasks' = [tasks EXCEPT ![t].pc = "raised", ![t].exc = Reraise("OSError")]
    /\ UNCHANGED <<procs, context, backupVars, ops>>

\* The child process exits.
ProcessExit ==
    /\ \E t \in DOMAIN procs :
          procs' = [k \in DOMAIN procs \ {t} |-> procs[k]]
    /\ UNCHANGED <<tasks, dirs, context, backupVars, ops>>

\* process.communicate() returns once the child has exited; run_sandboxed
\* returns the CompletedProcess and the with block removes the directory.
Communicate ==
    /\ \E t \in TaskIds :
          /\ tasks[t].pc = "communicating"
          /\ t \notin DOMAIN procs
          /\ dirs' = dirs \ tasks[t].dir
          /\ tasks' = [tasks EXCEPT ![t].pc = "returned"]
    /\ UNCHANGED <<procs, context, backupVars, ops>>

\* communicate() has returned and stdout.decode() or stderr.decode() raises
\* (output that is not UTF-8): the with block removes the directory.
DecodeFails ==
    /\ \E t \in TaskIds :
          /\ tasks[t].pc = "communicating"
          /\ t \notin DOMAIN procs
          /\ dirs' = dirs \ tasks[t].dir
          /\ tasks' = [tasks EXCEPT ![t].pc = "raised",
                                    ![t].exc = Reraise("UnicodeDecodeError")]
    /\ UNCHANGED <<procs, context, backupVars, ops>>

\* The awaiting task is cancelled (a caller's timeout): CancelledError leaves
\* through the with block, whose cleanup removes the directory tree; nothing
\* terminates the child. A child that is alive can create a file in the
\* directory while the tree is being removed: the removal then fails with
\* OSError (directory not empty), which is raised in place of CancelledError,
\* and the directory stays.
Cancel ==
    /\ \E t \in TaskIds, childWrites \in BOOLEAN :
          /\ tasks[t].pc \in {"spawning", "communicating"}
          /\ childWrites => t \in DOMAIN procs
          /\ IF childWrites
             THEN /\ dirs' = dirs
                  /\ tasks' = [tasks EXCEPT ![t].pc = "cancelled",
                                            ![t].exc = Reraise("OSError")]
             ELSE /\ dirs' = dirs \ tasks[t].dir
                  /\ tasks' = [tasks EXCEPT ![t].pc = "cancelled",
                                            ![t].exc = Reraise("CancelledError")]
    /\ UNCHANGED <<procs, context, backupVars, ops>>

----------------------------------------------------------------------------
(* SandboxManager's policy functions called on their own.                  *)

UpperLetters ==
    {"A", "B", "C", "D", "E", "F", "G", "H", "I", "J", "K", "L", "M",
     "N", "O", "P", "Q", "R", "S", "T", "U", "V", "W", "X", "Y", "Z"}

\* str.upper() on one character (the callers' spelling of a command).
UpperChar(c) ==
    IF \E u \in UpperLetters : LowerChar(u) = c
    THEN CHOOSE u \in UpperLetters : LowerChar(u) = c
    ELSE c

Upper(s) == [i \in 1..Len(s) |-> UpperChar(s[i])]

CmdChmodPlain == <<"c", "h", "m", "o", "d", " ", "7", "7", "7", " ", "x">>

\* What callers put before and after the words of a command.
Pads == {<<>>, <<" ">>, <<"x", " ">>, <<" ", "/">>}

\* The commands is_command_safe is asked about: every denylist entry as it is
\* written, in lower case and in upper case, and commands that contain none,
\* alone and inside a longer command line.
PolicyCommands ==
    LET words == RestrictedCommands
                 \cup {Lower(r) : r \in RestrictedCommands}
                 \cup {Upper(r) : r \in RestrictedCommands}
                 \cup {CmdLs, CmdChmodPlain}
    IN  {pre \o w \o post : pre \in Pads, w \in words, post \in Pads}

\* A call of is_command_safe: a query.
IsCommandSafeCall ==
    /\ last = NoCall
    /\ \E command \in PolicyCommands :
          last' = [op |-> "is_command_safe", command |-> command,
                   ret |-> IsCommandSafe(command)]
    /\ UNCHANGED <<files, baks, metas, stored, now, sandboxVars, ops>>

----------------------------------------------------------------------------
(* SandboxManager.is_path_allowed. A path is the sequence of its           *)
(* components below "/", each component a string.                          *)

MaxDepth == 3

DotDot == <<".", ".">>
Tmp == <<"t", "m", "p">>
TmpFoo == <<"t", "m", "p", "f", "o", "o">>
Var == <<"v", "a", "r">>
Etc == <<"e", "t", "c">>
HomeDir == <<"h", "o", "m", "e">>
User == <<"u">>
User2 == <<"u", "2">>

\* Path.home()
Home == <<HomeDir, User>>

\* _get_allowed_paths
AllowedPaths ==
    {Home,
     Home \o <<<<".", "t", "e", "r", "m", "i", "n", "a", "l", "_",
                 "d", "e", "c", "o", "r", "a", "t", "o", "r">>>>,
     Home \o <<<<".", "c", "o", "n", "f", "i", "g">>>>,
     Home \o <<<<".", "l", "o", "c", "a", "l">>, <<"s", "h", "a", "r", "e">>>>,
     <<Tmp>>,
     <<Var, Tmp>>}

\* The host's file system: the directories and files that exist ...
Exists ==
    {<<>>, <<Tmp>>, <<TmpFoo>>, <<Etc>>, <<Etc, <<"f">>>>, <<Var>>, <<Var, Tmp>>,
     <<HomeDir>>, Home, <<HomeDir, User2>>}

\* ... and the symbolic links, each with its target: one out of the allowed
\* roots, one to a sibling of a root, one whose target does not exist, and one
\* that points at itself.
Links ==
    [l \in {<<Tmp, <<"o", "u", "t">>>>, <<Tmp, <<"s", "i", "d", "e">>>>,
            <<Tmp, <<"d", "e", "a", "d">>>>, <<Tmp, <<"l", "o", "o", "p">>>>} |->
        CASE l = <<Tmp, <<"o", "u", "t">>>> -> <<Etc>>
          [] l = <<Tmp, <<"s", "i", "d", "e">>>> -> <<TmpFoo>>
          [] l = <<Tmp, <<"d", "e", "a", "d">>>> -> <<Tmp, <<"g", "o", "n", "e">>>>
          [] OTHER -> <<Tmp, <<"l", "o", "o", "p">>>>]

\* str(path): the components joined by "/" behind a leading "/".
RECURSIVE Joined(_)
Joined(path) ==
    IF path = <<>> THEN <<>> ELSE <<"/">> \o Head(path) \o Joined(Tail(path))

Str(path) == IF path = <<>> THEN <<"/">> ELSE Joined(path)

\* os.path.realpath(strict=False) as Path.resolve() calls it: `path` is what
\* is resolved so far, `rest` the components to come, `seen` the links being
\* resolved. ".." drops the last resolved component, a link is replaced by its
\* resolved target, a component that does not exist is kept as it is written;
\* a link met while it is being resolved is a loop (ok FALSE).
RECURSIVE JoinRealPath(_, _, _)
JoinRealPath(path, rest, seen) ==
    IF rest = <<>> THEN [ok |-> TRUE, path |-> path]
    ELSE LET name == Head(rest)
             more == Tail(rest)
             newpath == Append(path, name)
         IN  IF name = DotDot
             THEN JoinRealPath(IF path = <<>> THEN <<>>
                               ELSE SubSeq(path, 1, Len(path) - 1), more, seen)
             ELSE IF newpath \notin DOMAIN Links
             THEN JoinRealPath(newpath, more, seen)
             ELSE IF newpath \in seen
             THEN [ok |-> FALSE, path |-> newpath \o more]
             ELSE LET t == JoinRealPath(<<>>, Links[newpath], seen \cup {newpath})
                  IN  IF t.ok THEN JoinRealPath(t.path, more, seen)
                      ELSE [ok |-> FALSE, path |-> t.path \o more]

\* Path.resolve(): raises RuntimeError on a symlink loop (ok FALSE).
Resolve(path) == JoinRealPath(<<>>, path, {})

\* is_path_allowed(path)
IsPathAllowed(path) ==
    LET r == Resolve(path)
    IN  IF ~r.ok THEN FALSE
        ELSE \E allowed_path \in context.allowed_paths :
                StartsWith(Str(r.path), Str(allowed_path))

\* The component names callers' paths are made of.
ComponentNames ==
    {DotDot, Tmp, TmpFoo, Var, Etc, HomeDir, User, User2, <<"f">>,
     <<"o", "u", "t">>, <<"s", "i", "d", "e">>, <<"d", "e", "a", "d">>,
     <<"l", "o", "o", "p">>, <<"g", "o", "n", "e">>}

\* The absolute paths is_path_allowed is asked about.
PolicyPaths == UNION {[1..n -> ComponentNames] : n \in 0..MaxDepth}

\* A call of is_path_allowed: a query.
IsPathAllowedCall ==
    /\ last = NoCall
    /\ \E path \in PolicyPaths :
          last' = [op |-> "is_path_allowed", path |-> path,
                   ret |-> IsPathAllowed(path)]
    /\ UNCHANGED <<files, baks, metas, stored, now, sandboxVars, ops>>

\* The parent environments _get_safe_environment is called in: any of these
\* variables set or unset.
ParentVars == {"HOME", "LC_ALL", "PATH", "API_TOKEN"}

ParentValue(v) ==
    CASE v = "HOME" -> <<"/home/u">>
      [] v = "LC_ALL" -> <<"C">>
      [] v = "PATH" -> <<"/opt/tools/bin", ":", "/usr/bin">>
      [] OTHER -> <<"secret">>

ParentEnvironments == {[v \in S |-> ParentValue(v)] : S \in SUBSET ParentVars}

\* A call of _get_safe_environment (as the constructor makes it).
GetSafeEnvironmentCall ==
    /\ last = NoCall
    /\ \E environ \in ParentEnvironments,
          existing \in SUBSET {SafePaths[i] : i \in 1..Len(SafePaths)} :
          last' = [op |-> "_get_safe_environment", environ |-> environ,
                   existing |-> existing,
                   ret |-> SafeEnvironment(environ, existing)]
    /\ UNCHANGED <<files, baks, metas, stored, now, sandboxVars, ops>>

----------------------------------------------------------------------------
(* SecurityManager.secure_file_operation: the wrapper around a file         *)
(* operation `func`, called with positional and keyword arguments.          *)

MaxArgs == 2

\* Path(arg) for an absolute path string: its components.
RECURSIVE SplitSlash(_, _, _)
SplitSlash(s, cur, acc) ==
    LET done == IF cur = <<>> THEN acc ELSE Append(acc, cur)
    IN  IF s = <<>> THEN done
        ELSE IF Head(s) = "/" THEN SplitSlash(Tail(s), <<>>, done)
        ELSE SplitSlash(Tail(s), Append(cur, Head(s)), acc)

PathOf(s) == SplitSlash(s, <<>>, <<>>)

\* The files the wrapped operations are called on: one under an allowed
\* root, one outside the roots, and the latter through a link under /tmp.
TmpF == <<"/", "t", "m", "p", "/", "f">>
EtcF == <<"/", "e", "t", "c", "/", "f">>
TmpOutF == <<"/", "t", "m", "p", "/", "o", "u", "t", "/", "f">>
WrapperPaths == {TmpF, EtcF, TmpOutF}

\* The names of the wrapped operations.
FuncNames == {"write_file", "modify_file", "delete_file", "read_file"}

\* Argument values: a path string, or a value that is neither str nor Path.
StrArg(p) == [str |-> TRUE, v |-> p]
OtherArg == [str |-> FALSE, v |-> <<>>]
ArgValues == {StrArg(p) : p \in WrapperPaths} \cup {OtherArg}
ArgLists == UNION {[1..n -> ArgValues] : n \in 0..MaxArgs}
KwArgs == {{}} \cup {{[name |-> "path", value |-> v]} : v \in ArgValues}

\* Lines 314-318: the loop over the positional arguments. Gives the calls of
\* is_path_allowed made, in order, and whether one of them denied the path,
\* which ends the loop with SecurityError.
RECURSIVE CheckArgs(_)
CheckArgs(args) ==
    IF args = <<>> THEN [calls |-> <<>>, denied |-> FALSE]
    ELSE IF ~Head(args).str THEN CheckArgs(Tail(args))
    ELSE IF ~IsPathAllowed(PathOf(Head(args).v))
    THEN [calls |-> <<"is_path_allowed">>, denied |-> TRUE]
    ELSE LET rest == CheckArgs(Tail(args))
         IN  [calls |-> <<"is_path_allowed">> \o rest.calls,
              denied |-> rest.denied]

\* What the caller of the wrapper has when it ends: the exception that
\* reached it ("" when none), the calls the wrapper made in order, the outcome
\* of create_backup when it was called, and whether func was called.
Wrapped(func, args, kwargs, exc, calls, backup, called) ==
    [op |-> "secure_file_operation", func |-> func, args |-> args,
     kwargs |-> kwargs, exc |-> exc, calls |-> calls, backup |-> backup,
     called |-> called]

\* wrapper(*args, **kwargs), lines 311-328. func itself is the caller's code:
\* its call is recorded, what it does is not part of the wrapper.
SecureFileOperation(func, args, kwargs, fault) ==
    LET checks == CheckArgs(args)
    IN  IF checks.denied
        THEN /\ last' = Wrapped(func, args, kwargs, Reraise("SecurityError"),
                                checks.calls, <<>>, FALSE)
             /\ UNCHANGED <<files, baks, metas, stored, now>>
        ELSE IF func \notin {"write_file", "modify_file", "delete_file"}
        THEN /\ last' = Wrapped(func, args, kwargs, "",
                                checks.calls \o <<"func">>, <<>>, TRUE)
             /\ UNCHANGED <<files, baks, metas, stored, now>>
        ELSE IF args = <<>>
        THEN /\ last' = Wrapped(func, args, kwargs, Reraise("IndexError"),
                                checks.calls, <<>>, FALSE)
             /\ UNCHANGED <<files, baks, metas, stored, now>>
        ELSE IF ~args[1].str
        THEN /\ last' = Wrapped(func, args, kwargs, Reraise("TypeError"),
                                checks.calls, <<>>, FALSE)
             /\ UNCHANGED <<files, baks, metas, stored, now>>
        ELSE CreateBackupWith(args[1].v, DefaultCategory, fault, {},
                Wrapped(func, args, kwargs, "",
                        checks.calls \o <<"create_backup", "func">>,
                        <<>>, TRUE))

\* A call of a wrapped operation.
SecureFileOperationCall ==
    /\ last = NoCall
    /\ ops < MaxOps
    /\ ops' = ops + 1
    /\ \E func \in FuncNames, args \in ArgLists, kwargs \in KwArgs,
          fault \in CreateFaults :
          SecureFileOperation(func, args, kwargs, fault)
    /\ UNCHANGED sandboxVars

----------------------------------------------------------------------------

Empty == [x \in {} |-> x]

\* _create_security_context, for the fields the policy and the sandbox read.
CreateSecurityContext ==
    [environment |-> ContextEnvironment,
     allowed_paths |-> AllowedPaths,
     restricted_commands |-> RestrictedCommands]

Init ==
    /\ files = [p \in Paths |->
                  IF p = PathBX THEN NoFile
                  ELSE [exists |-> TRUE, content |-> <<0>>,
                        mode |-> IF p = PathAX THEN 420 ELSE 384, mtime |-> 0]]
    /\ baks = Empty
    /\ metas = Empty
    /\ stored = Empty
    /\ now = 0
    /\ last = NoCall
    /\ tasks = [t \in TaskIds |-> IdleTask]
    /\ dirs = {}
    /\ procs = Empty
    /\ context = CreateSecurityContext
    /\ ops = 0

Next ==
    \/ CreateBackup
    \/ RestoreBackup
    \/ ListBackupsCall
    \/ Tick
    \/ WriteFile
    \/ Return
    \/ TamperBackup

Spec == Init /\ [][Next]_vars

NextSandbox ==
    \/ SecureCommandExecution
    \/ Spawn
    \/ SpawnFails
    \/ ProcessExit
    \/ Communicate
    \/ DecodeFails
    \/ Cancel

\* The sandbox on its own: any number of run_sandboxed coroutines interleaved.
SpecSandbox == Init /\ [][NextSandbox]_vars

\* The same with other actors writing to the backup directory or to the
\* source file during a call.
NextRace ==
    \/ Next
    \/ RestoreBackupRaced
    \/ CreateBackupRaced

SpecRace == Init /\ [][NextRace]_vars

NextPolicy ==
    \/ IsCommandSafeCall
    \/ IsPathAllowedCall
    \/ GetSafeEnvironmentCall
    \/ Return

\* The policy functions of SandboxManager, each call on its own.
SpecPolicy == Init /\ [][NextPolicy]_vars

\* The wrapped file operations, on the files they are called on.
InitWrapper ==
    /\ files = [p \in WrapperPaths |->
                  [exists |-> TRUE, content |-> <<0>>, mode |-> 420, mtime |-> 0]]
    /\ baks = Empty
    /\ metas = Empty
    /\ stored = Empty
    /\ now = 0
    /\ last = NoCall
    /\ tasks = [t \in TaskIds |-> IdleTask]
    /\ dirs = {}
    /\ procs = Empty
    /\ context = CreateSecurityContext
    /\ ops = 0

NextWrapper ==
    \/ SecureFileOperationCall
    \/ Tick
    \/ Return

SpecWrapper == InitWrapper /\ [][NextWrapper]_vars

NextVerify ==
    \/ CreateBackup
    \/ WriteFile
    \/ Tick
    \/ VerifyFileIntegrityCall
    \/ Return

\* verify_file_integrity among backups and writes of the files.
SpecVerify == Init /\ [][NextVerify]_vars

NextRestore ==
    \/ CreateBackup
    \/ RestoreBackup
    \/ Return

\* Backups and restores alone, the files and the catalog otherwise left as
\* they are.
SpecRestore == Init /\ [][NextRestore]_vars

----------------------------------------------------------------------------
(* Properties.                                                             *)

\* A step that is a call of restore_backup.
RestoreStep == last'.op = "restore_backup" /\ last.op # "restore_backup"

\* The backup copy k no longer has the bytes create_backup stored in it.
Altered(k) == k \in DOMAIN stored /\ baks[k].content # stored[k]

\* C1 (fail closed on tamper): a restore_backup call that works from a backup
\* created by create_backup whose bytes were altered afterwards, whether the
\* backup was given explicitly or selected, returns False and leaves every
\* user file, the target included, as it was.
C1_FailClosedOnTamper ==
    [][(RestoreStep /\ Altered(last'.sel))
          => (last'.ret = FALSE /\ files' = files)]_vars

\* C1's case: a restore without an explicit backup selected an altered backup
\* and refused it.
C1_Witness ==
    /\ last.op = "restore_backup"
    /\ last.backup = None
    /\ Altered(last.sel)
    /\ last.ret = FALSE

\* C2 (round trip): create_backup(path, category) returning a backup path and
\* followed immediately by restore_backup(path) without an explicit backup and
\* without an I/O failure returns True and leaves path with the content it had.
C2_RoundTrip ==
    [][(/\ last.op = "create_backup"
        /\ last.ret # None
        /\ \E root \in BOOLEAN, sameFs \in BOOLEAN :
              RestoreBackupCall(last.path, None, "none", root, sameFs, {}, {}))
          => (/\ last'.ret = TRUE
              /\ files'[last.path].content = files[last.path].content)]_vars

\* C3 (policy before any process creation): a run_sandboxed call whose
\* command is_command_safe rejects ends by raising SecurityError to the caller
\* of secure_command_execution, never has a sandbox directory or a child
\* process, and its step creates no directory and no process.
C3_PolicyBeforeSpawn ==
    [][\A t \in TaskIds :
          (~IsCommandSafe(tasks'[t].cmd) /\ tasks'[t].pc # "idle")
             => (/\ tasks'[t].pc = "raised"
                 /\ tasks'[t].exc = "SecurityError"
                 /\ tasks'[t].dir = {}
                 /\ t \notin DOMAIN procs'
                 /\ (tasks[t].pc = "idle" => (dirs' = dirs /\ procs' = procs)))]_vars

\* C3's case: a rejected command, raised as SecurityError, while another
\* command runs in its sandbox.
C3_Witness ==
    \E t, u \in TaskIds :
        /\ tasks[t].pc = "raised"
        /\ tasks[t].exc = "SecurityError"
        /\ ~IsCommandSafe(tasks[t].cmd)
        /\ u \in DOMAIN procs

\* C4 (atomic rename only): no restore_backup call writes the target by a copy.
C4_OnlyAtomicRename ==
    last.op = "restore_backup" => last.how # "copy"

\* C5 (never partially applied): a restore_backup call that returns False
\* leaves the target, and every other user file, as it was.
C5_FailureLeavesTarget ==
    [][(RestoreStep /\ last'.ret = FALSE) => files' = files]_vars

\* C6 (True only if verified): when restore_backup returns True the backup it
\* used has a sidecar and the target's digest equals the recorded hash.
C6_TrueOnlyIfVerified ==
    (last.op = "restore_backup" /\ last.ret = TRUE) =>
        /\ MetaPath(last.sel) \in DOMAIN metas
        /\ CalculateFileHash(files[last.path].content)
              = metas[MetaPath(last.sel)].hash

\* C7 (staged copy verified against the recorded hash): a restore_backup call
\* during which another actor changed the backup copy returns False and does
\* not write the target.
C7_RaceDetected ==
    [][(/\ RestoreStep
        /\ last'.sel \in DOMAIN baks
        /\ baks'[last'.sel].content # baks[last'.sel].content)
          => (last'.ret = FALSE /\ last'.how = "none")]_vars

\* C8 (restore selects index 0 of list_backups): restore_backup(path) without
\* an explicit backup works from the first record of list_backups(path), for
\* some order of the directory listing, and from nothing when that list is
\* empty.
C8_RestoresListHead ==
    [][(RestoreStep /\ last'.backup = None)
          => \E scan \in Scans :
                LET l == ListBackups(scan, last'.path)
                IN  IF l = <<>> THEN last'.sel = None
                    ELSE last'.sel = l[1].backup_path]_vars

\* C9 (selection by original path): the backup restore_backup(path) selects,
\* when it has a sidecar, records path as its original path.
C9_SelectsOwnBackup ==
    (/\ last.op = "restore_backup"
     /\ last.backup = None
     /\ last.sel # None
     /\ MetaPath(last.sel) \in DOMAIN metas)
        => metas[MetaPath(last.sel)].original_path = last.path

\* C10 (ordering): list_backups returns one record per sidecar-bearing backup
\* of the path, in descending timestamp order, strictly descending when the
\* backups were created at different timestamps.
C10_ListDescending ==
    last.op = "list_backups" =>
        LET l == last.ret
            recs == {k \in DOMAIN baks :
                        /\ MetaPath(k) \in DOMAIN metas
                        /\ (last.path = None
                            \/ metas[MetaPath(k)].original_path = last.path)}
            stamps == {metas[MetaPath(k)].timestamp : k \in recs}
        IN  /\ Len(l) = Cardinality(recs)
            /\ \A i, j \in 1..Len(l) :
                  i < j => ~StrLess(l[i].timestamp, l[j].timestamp)
            /\ Cardinality(stamps) = Cardinality(recs) =>
                  \A i, j \in 1..Len(l) :
                      i < j => StrLess(l[j].timestamp, l[i].timestamp)

\* C10's case: a path with two backups created at different timestamps, listed.
C10_Witness ==
    /\ last.op = "list_backups"
    /\ last.path # None
    /\ Len(last.ret) >= 2
    /\ last.ret[1].timestamp # last.ret[2].timestamp

\* The command, trimmed and lower-cased, contains a denylist entry, compared
\* without regard to case.
ContainsRestricted(command) ==
    \E r \in RestrictedCommands : Contains(Lower(Strip(command)), Lower(r))

\* C11 (command policy): is_command_safe(command) returns False when the
\* trimmed, lower-cased command contains, case-insensitively, an entry of the
\* denylist, whichever entry it is, and True when it contains none.
C11_DenylistSubstring ==
    last.op = "is_command_safe" =>
        (last.ret = FALSE <=> ContainsRestricted(last.command))

\* The path a is the path b or lies below it, component by component.
NestedUnder(a, b) == Len(b) <= Len(a) /\ SubSeq(a, 1, Len(b)) = b

\* C12 (path policy): is_path_allowed(path) returns True exactly when the
\* path resolves and its resolved form is one of the allowed roots or nested
\* under one as a path (so not for a sibling that shares a string prefix with
\* a root, and not for a path under /etc).
C12_AllowedIffNested ==
    last.op = "is_path_allowed" =>
        (last.ret = TRUE <=>
            /\ Resolve(last.path).ok
            /\ \E root \in AllowedPaths :
                  NestedUnder(Resolve(last.path).path, root))

\* The links whose target does not exist.
BrokenLinks == {l \in DOMAIN Links : Resolve(l).ok /\ Resolve(l).path \notin Exists}

\* The path cannot be resolved to an existing location: it runs into a symlink
\* loop, goes through a broken symlink, or the directory it would be in does
\* not exist.
ResolutionFails(path) ==
    \/ ~Resolve(path).ok
    \/ \E l \in BrokenLinks : NestedUnder(path, l)
    \/ /\ Resolve(path).path # <<>>
       /\ SubSeq(Resolve(path).path, 1, Len(Resolve(path).path) - 1) \notin Exists

\* C13 (membership on the resolved form, fail closed): is_path_allowed returns
\* False for a path whose resolution fails (broken symlink, nonexistent
\* parent, symlink loop), and for a path that is written inside an allowed
\* root and whose resolved form lies outside every allowed root.
C13_ResolvedFailClosed ==
    last.op = "is_path_allowed" =>
        /\ ResolutionFails(last.path) => last.ret = FALSE
        /\ (/\ \E root \in AllowedPaths : NestedUnder(last.path, root)
            /\ Resolve(last.path).ok
            /\ \A root \in AllowedPaths :
                  ~NestedUnder(Resolve(last.path).path, root))
              => last.ret = FALSE

\* C14 (environment allow-list): the environment of every sandboxed child
\* process has no variable outside the allow-list, inherited or added.
C14_EnvOnlyAllowed ==
    \A t \in DOMAIN procs :
        DOMAIN procs[t].env \subseteq
            {"HOME", "USER", "SHELL", "PATH", "TERM", "LANG", "LC_ALL", "EDITOR",
             "VISUAL", "DISPLAY"}

\* The directories of the sandbox PATH, in order.
FixedPath ==
    <<"/usr/local/bin", "/usr/bin", "/bin", "/usr/local/sbin", "/usr/sbin", "/sbin">>

\* str.split(':') on the parts of a joined string.
SplitColon(parts) == SelectSeq(parts, LAMBDA x : x # ":")

\* C15 (PATH is fixed): whatever the parent environment (PATH set to anything
\* or unset), the environment _get_safe_environment builds has a PATH, and it
\* is the fixed list of directories filtered to those that exist, in order.
C15_PathFixed ==
    last.op = "_get_safe_environment" =>
        /\ "PATH" \in DOMAIN last.ret
        /\ SplitColon(last.ret["PATH"])
              = SelectSeq(FixedPath, LAMBDA d : d \in last.existing)
        /\ last.ret["PATH"]
              = JoinColon(SelectSeq(FixedPath, LAMBDA d : d \in last.existing))

\* C15's case: the parent has a PATH of its own and the host lacks some of the
\* directories, but not all.
C15_Witness ==
    /\ last.op = "_get_safe_environment"
    /\ "PATH" \in DOMAIN last.environ
    /\ last.existing # {}
    /\ "/usr/bin" \notin last.existing
    /\ Len(last.ret["PATH"]) >= 3

\* The run_sandboxed calls that are under way.
Running == {t \in TaskIds : tasks[t].pc \in {"spawning", "communicating"}}

\* C16 (ephemeral directory): each run_sandboxed call under way has a sandbox
\* directory of its own, and no sandbox directory exists that is not that of a
\* call under way: once run_sandboxed has returned, raised or been cancelled
\* its directory is gone.
C16_DirRemovedOnExit ==
    /\ dirs = UNION {tasks[t].dir : t \in Running}
    /\ \A t, u \in Running : t # u => tasks[t].dir \cap tasks[u].dir = {}

\* C17 (timeout): the step in which a run_sandboxed call is cancelled ends
\* its child process and removes its sandbox directory.
C17_TimeoutKillsChild ==
    [][\A t \in TaskIds :
          (tasks[t].pc # "cancelled" /\ tasks'[t].pc = "cancelled")
             => (t \notin DOMAIN procs' /\ tasks[t].dir \cap dirs' = {})]_vars

\* A step that is a call of create_backup.
CreateStep == last'.op = "create_backup" /\ last.op # "create_backup"

\* C18 (append-only): a successful create_backup call adds the backup copy
\* and the sidecar as new entries, one record more in the catalog, and leaves
\* every backup copy, every sidecar and every user file that existed as it
\* was.
C18_CreateOnlyAdds ==
    [][(CreateStep /\ last'.ret # None)
          => (/\ last'.ret \notin DOMAIN baks
              /\ MetaPath(last'.ret) \notin DOMAIN metas
              /\ Cardinality(DOMAIN metas') = Cardinality(DOMAIN metas) + 1
              /\ \A k \in DOMAIN baks : baks'[k] = baks[k]
              /\ \A k \in DOMAIN metas : metas'[k] = metas[k]
              /\ files' = files)]_vars

\* C19 (recorded hash is the copy's hash): when create_backup has returned a
\* backup path, the digest of that backup copy is the hash in its sidecar.
C19_HashOfStoredCopy ==
    (last.op = "create_backup" /\ last.ret # None) =>
        CalculateFileHash(baks[last.ret].content) = metas[MetaPath(last.ret)].hash

\* C20 (create_backup never raises): no create_backup call raises; a call
\* that fails at any point returns None; a call on a path that does not exist
\* returns None and creates no backup copy and no sidecar.
C20_CreateReportsNone ==
    [][CreateStep
          => (/\ last'.raised = FALSE
              /\ last'.failure # "none" => last'.ret = None
              /\ ~files[last'.path].exists
                    => (/\ last'.ret = None
                        /\ last'.failure = "missing"
                        /\ baks' = baks
                        /\ metas' = metas))]_vars

\* C20's case: create_backup was called on a path that does not exist, while
\* the catalog holds a backup.
C20_Witness ==
    /\ last.op = "create_backup"
    /\ last.failure = "missing"
    /\ last.ret = None
    /\ DOMAIN baks # {}

\* C21 (nothing to restore): restore_backup(path) without an explicit backup,
\* when no sidecar in the catalog records path as its original path, returns
\* False and leaves the user's files and the catalog as they were.
C21_NoRecordReturnsFalse ==
    [][(/\ RestoreStep
        /\ last'.backup = None
        /\ \A k \in DOMAIN metas : metas[k].original_path # last'.path)
          => (/\ last'.ret = FALSE
              /\ files' = files
              /\ baks' = baks
              /\ metas' = metas)]_vars

\* C22 (the context is immutable): whatever run_sandboxed calls have run or
\* are running, the context holds the environment, the allowed paths and the
\* restricted commands it was constructed with, and the environment of each
\* child is that environment plus the child's own SANDBOX_DIR.
C22_ContextImmutable ==
    /\ context = [environment |-> SafeEnvironment(OsEnviron, HostPaths),
                  allowed_paths |-> AllowedPaths,
                  restricted_commands |-> RestrictedCommands]
    /\ \A t \in DOMAIN procs :
          procs[t].env =
             [v \in DOMAIN SafeEnvironment(OsEnviron, HostPaths) \cup {"SANDBOX_DIR"} |->
                 IF v = "SANDBOX_DIR"
                 THEN SandboxDir(CHOOSE d \in procs[t].cwd : TRUE)
                 ELSE SafeEnvironment(OsEnviron, HostPaths)[v]]

\* C22's case: two sandboxed children alive at once, each with its own
\* SANDBOX_DIR.
C22_Witness ==
    \E t, u \in DOMAIN procs :
        /\ t # u
        /\ procs[t].env["SANDBOX_DIR"] # procs[u].env["SANDBOX_DIR"]

\* C23 (exclusive directories): every run_sandboxed call under way has a
\* sandbox directory, which exists, and no two calls under way have the same.
C23_ExclusiveDirs ==
    \A t \in Running :
        /\ tasks[t].dir # {}
        /\ tasks[t].dir \subseteq dirs
        /\ \A u \in Running \ {t} : tasks[t].dir \cap tasks[u].dir = {}

\* C23's case: one call has ended and its directory is removed while the
\* child of another call is running in its own.
C23_Witness ==
    \E t, u \in TaskIds :
        /\ tasks[t].pc \in {"returned", "raised", "cancelled"}
        /\ tasks[t].dir # {}
        /\ tasks[t].dir \cap dirs = {}
        /\ u \in Running
        /\ u \in DOMAIN procs
        /\ procs[u].cwd \subseteq dirs

\* The backup copies that have a record of an original path other than p.
RecordsOfOthers(p) ==
    {b \in DOMAIN baks : /\ MetaPath(b) \in DOMAIN metas
                         /\ metas[MetaPath(b)].original_path # p}

\* C24 (distinct paths do not interfere): a successful create_backup of one
\* path leaves the backup copy and the sidecar of every record of another
\* path as they were, and a successful restore_backup of a path by its newest
\* backup takes a backup whose record, if it has one, is of that path.
C24_DistinctPathsIndependent ==
    [][/\ (CreateStep /\ last'.ret # None)
            => \A b \in RecordsOfOthers(last'.path) :
                  /\ b \in DOMAIN baks' /\ baks'[b] = baks[b]
                  /\ MetaPath(b) \in DOMAIN metas'
                  /\ metas'[MetaPath(b)] = metas[MetaPath(b)]
       /\ (RestoreStep /\ last'.backup = None /\ last'.ret = TRUE)
            => last'.sel \notin RecordsOfOthers(last'.path)]_vars

\* The backup copies in the two category directories that have a sidecar
\* whose original path is p, or that have a sidecar when p is None.
RecordsOf(p) ==
    {k \in DOMAIN baks :
        /\ k[1] \in {"shell_configs", "system_configs"}
        /\ MetaPath(k) \in DOMAIN metas
        /\ (p = None \/ metas[MetaPath(k)].original_path = p)}

\* C25 (list_backups returns exactly the records): the list returned for a
\* path has one entry for each record of that path in the two category
\* directories, for no argument one entry for each record, and nothing else;
\* each entry has the fields of its sidecar, the path of its backup copy and
\* the size of that copy.
C25_ListExact ==
    last.op = "list_backups" =>
        /\ Len(last.ret) = Cardinality(RecordsOf(last.path))
        /\ {last.ret[i].backup_path : i \in 1..Len(last.ret)} = RecordsOf(last.path)
        /\ \A i \in 1..Len(last.ret) :
              LET k == last.ret[i].backup_path
              IN  /\ last.ret[i].size = Len(baks[k].content)
                  /\ last.ret[i].original_path = metas[MetaPath(k)].original_path
                  /\ last.ret[i].timestamp = metas[MetaPath(k)].timestamp
                  /\ last.ret[i].hash = metas[MetaPath(k)].hash
                  /\ last.ret[i].permissions = metas[MetaPath(k)].permissions

\* C25's case: list_backups(path) has returned a record of the path while the
\* other category directory holds a record of another path.
C25_Witness ==
    /\ last.op = "list_backups"
    /\ last.path # None
    /\ Len(last.ret) >= 1
    /\ \E k \in RecordsOf(None) :
          /\ metas[MetaPath(k)].original_path # last.path
          /\ k[1] # last.ret[1].backup_path[1]

\* C26 (permissions applied, ownership skipped without privilege): when a
\* restore_backup call has returned True from a backup that has a sidecar,
\* the target's permission bits are the ones the sidecar records; and a
\* restore by an unprivileged process for which the owner cannot be looked up
\* or set ends exactly as it does when the owner can be.
C26_PermissionsApplied ==
    /\ (last.op = "restore_backup" /\ last.ret = TRUE
          /\ MetaPath(last.sel) \in DOMAIN metas)
            => PermString(files[last.path].mode)
                  = metas[MetaPath(last.sel)].permissions
    /\ \A p \in Paths, sel \in DOMAIN baks, sameFs \in BOOLEAN :
          Restore(p, sel, "owner", FALSE, sameFs, {}, {})
             = Restore(p, sel, "none", FALSE, sameFs, {}, {})

\* C26's case: a restore from another file's backup has returned True and
\* has changed the permission bits of the target to the recorded ones.
C26_Witness ==
    /\ last.op = "restore_backup"
    /\ last.ret = TRUE
    /\ last.path = PathAXrc
    /\ MetaPath(last.sel) \in DOMAIN metas
    /\ metas[MetaPath(last.sel)].permissions = <<"6", "4", "4">>
    /\ files[PathAXrc].mode = 420

\* A step that is a call of a wrapped operation.
WrapStep == last'.op = "secure_file_operation" /\ last.op # "secure_file_operation"

\* The paths given to the call r, by position or by keyword.
PathsGiven(r) ==
    {r.args[i].v : i \in {j \in 1..Len(r.args) : r.args[j].str}}
        \cup {k.value.v : k \in {q \in r.kwargs : q.value.str}}

\* C27 (policy and backup before the wrapped operation): the wrapped function
\* is called only when is_path_allowed allows every path given, by position or
\* by keyword, and for write_file, modify_file and delete_file only after
\* create_backup was called, the checks first, the backup second, the function
\* last; when a path given is not allowed the call ends with SecurityError, the
\* catalog is unchanged and the function is not called.
C27_CheckedBeforeCall ==
    [][WrapStep =>
          /\ last'.called
                => /\ \A p \in PathsGiven(last') : IsPathAllowed(PathOf(p))
                   /\ last'.func \in {"write_file", "modify_file", "delete_file"}
                         => \E n \in 0..Len(last'.args) :
                               last'.calls = [i \in 1..n |-> "is_path_allowed"]
                                                \o <<"create_backup", "func">>
          /\ (\E p \in PathsGiven(last') : ~IsPathAllowed(PathOf(p)))
                => /\ last'.exc = "SecurityError"
                   /\ ~last'.called
                   /\ last'.backup = <<>>
                   /\ baks' = baks /\ metas' = metas]_vars

\* C28 (no staging file survives a failed restore): when restore_backup has
\* returned False after it created the temporary file, the temporary file is
\* removed.
C28_NoTmpAfterFailure ==
    (last.op = "restore_backup" /\ last.ret = FALSE /\ last.staged)
        => ~last.tmpLeft

\* C29 (every backup copy has a sidecar): each backup copy in a category
\* directory has its sidecar, so every backup copy restore_backup can select
\* is one list_backups reports.
C29_EveryCopyHasSidecar ==
    \A k \in DOMAIN baks :
        /\ MetaPath(k) \in DOMAIN metas
        /\ \A scan \in Scans :
              \E i \in 1..Len(ListBackups(scan, None)) :
                  ListBackups(scan, None)[i].backup_path = k

\* A step that is a call of verify_file_integrity.
VerifyStep == last'.op = "verify_file_integrity" /\ last.op # "verify_file_integrity"

\* C30 (verify_file_integrity): the call does not raise and changes neither
\* the files nor the catalog. It returns False when the catalog cannot be
\* loaded; else True when there is no record of the path; else False when the
\* file is missing or cannot be read; else True exactly when the digest of the
\* file is the hash of the first entry of list_backups(path).
C30_VerifyIntegrity ==
    [][VerifyStep =>
          /\ ~last'.raised
          /\ files' = files /\ baks' = baks /\ metas' = metas
          /\ IF last'.fault = "catalog" THEN last'.ret = FALSE
             ELSE IF RecordsOf(last'.path) = {} THEN last'.ret = TRUE
             ELSE IF last'.fault = "read" \/ ~files[last'.path].exists
             THEN last'.ret = FALSE
             ELSE last'.ret = TRUE
                    <=> CalculateFileHash(files[last'.path].content)
                           = ListBackups(last'.scan, last'.path)[1].hash]_vars

\* C30's case: the file was rewritten after its backup, and the call reports
\* it as modified.
C30_Witness ==
    /\ last.op = "verify_file_integrity"
    /\ last.fault = "none"
    /\ RecordsOf(last.path) # {}
    /\ files[last.path].exists
    /\ last.ret = FALSE

====
